---- MODULE Spec2Model ----
(***************************************************************************)
(* gpx_street_extractor.py: the point collector (collect_points), the      *)
(* reverse-geocoding classifier (get_street_name) and the street debouncer *)
(* (process_points), as state machines.                                    *)
(*                                                                         *)
(* Python's None is the string None for street names and the integer       *)
(* NoTime for timestamps.  Timestamps and offsets are whole seconds.       *)
(* Sample indices are 0-based as in the source; points[i + 1] is sample i. *)
(***************************************************************************)
EXTENDS Integers, Sequences, FiniteSets, TLC

VARIABLES
    gpx,              \* the parsed GPX structure main() collects from
    points,           \* list of (lat, lon, time) tuples
    downsample,       \* the stride argument
    threshold,        \* the threshold argument
    final_threshold,  \* the final_threshold argument
    pc,               \* position in main / process_points
    start_time,       \* process_points local
    confirmed_street, \* process_points local
    candidate_street, \* process_points local
    candidate_times,  \* process_points local
    i,                \* loop index of process_points
    out,              \* the printed event lines, in print order
    notice,           \* the printed "no data" messages
    sleeps,           \* history: sample indices time.sleep was taken for
    calls,            \* history: sample indices passed to get_street_name
    last,             \* history: outcome of the latest get_street_name call
    hist,             \* history: one record per loop iteration
    candidate_hits,   \* history: sample indices of the hits in candidate_times
    log               \* history: the pauses, requests and debounce steps, in order

vars == <<gpx, points, downsample, threshold, final_threshold, pc, start_time,
          confirmed_street, candidate_street, candidate_times, i, out, notice,
          sleeps, calls, last, hist, candidate_hits, log>>

----------------------------------------------------------------------------
(* Bounds of the model *)

MaxPoints == 7      \* longest sample sequence (all samples timestamped)
MaxGappy == 4       \* longest sample sequence in which timestamps may be absent
MaxThreshold == 3   \* largest threshold / final_threshold
MaxStride == 2      \* largest downsample stride
MaxTracks == 2      \* most tracks, and most routes, of a GPX
MaxSegs == 1        \* most segments of a track
MaxPts == 1         \* most points of a segment or route
MaxWpts == 2        \* most waypoints of a GPX
MaxSeconds == 3700  \* largest time offset of the runs that print long offsets

----------------------------------------------------------------------------
(* Values *)

None == "None"
NoTime == -1
Skipped == "skipped"
Streets == {"A", "B"}

SeqsUpTo(S, n) == UNION {[1..k -> S] : k \in 0..n}

TruthyAlways(s) == TRUE

\* Python truthiness of an optional string: None and "" are falsy
Truthy(s) == s # None /\ s # ""

\* Python's `a or b`
Or(a, b) == IF Truthy(a) THEN a ELSE b

----------------------------------------------------------------------------
(* format_time_delta *)

format_time_delta_wrapped(seconds) == <<(seconds \div 60) % 60, seconds % 60>>

format_time_delta(seconds) == <<seconds \div 60, seconds % 60>>

----------------------------------------------------------------------------
(* get_street_name: the outcomes of one reverse-geocoding request *)

Responses ==
    {[kind |-> "exception"], [kind |-> "status"]}
    \cup {[kind |-> "ok", road |-> r, footway |-> f, pedestrian |-> p] :
            r \in {None, "", "A", "B"},
            f \in {None, "B"},
            p \in {None, "A"}}

get_street_name(resp) ==
    IF resp.kind = "ok"
    THEN Or(Or(resp.road, resp.footway), resp.pedestrian)
    ELSE None

----------------------------------------------------------------------------
(* collect_points *)

PointTuple(pt) == <<pt.latitude, pt.longitude, pt.time>>

RECURSIVE Concat(_)
Concat(ss) == IF ss = <<>> THEN <<>> ELSE Head(ss) \o Concat(Tail(ss))

Tuples(pts) == [k \in 1..Len(pts) |-> PointTuple(pts[k])]

TrackPoints(g) ==
    Concat([t \in 1..Len(g.tracks) |->
              Concat([s \in 1..Len(g.tracks[t]) |-> Tuples(g.tracks[t][s])])])

RoutePoints(g) == Concat([r \in 1..Len(g.routes) |-> Tuples(g.routes[r])])

collect_points_all(g) ==
    TrackPoints(g) \o RoutePoints(g) \o Tuples(g.waypoints)

collect_points(g) ==
    LET p1 == IF g.tracks # <<>> THEN TrackPoints(g) ELSE <<>>
    IN  IF g.tracks # <<>> /\ p1 # <<>> THEN p1
        ELSE LET p2 == IF g.routes # <<>> THEN p1 \o RoutePoints(g) ELSE p1
             IN  IF g.routes # <<>> /\ p2 # <<>> THEN p2
                 ELSE IF g.waypoints # <<>> THEN p2 \o Tuples(g.waypoints)
                      ELSE p2

----------------------------------------------------------------------------
(* Inputs *)

EmptyGpx == [tracks |-> <<>>, routes |-> <<>>, waypoints |-> <<>>]

\* Sample k (1-based) recorded 10 seconds after sample k - 1
Stamp(k) == 10 * (k - 1)

\* Sample sequences: timestamps are chronological; in the short sequences
\* any sample may lack its timestamp
PointSeqs ==
    UNION {{[k \in 1..n |-> <<k, 0, IF k \in S THEN NoTime ELSE Stamp(k)>>] :
              S \in (IF n <= MaxGappy THEN SUBSET (1..n) ELSE {{}})}
           : n \in 0..MaxPoints}

GpxPoint(id) == [latitude |-> id, longitude |-> 0, time |-> NoTime]

\* GPX structures; every point carries its own latitude, by source:
\* track points 100*t + 10*s + k, route points 1000 + 10*r + k, waypoints 2000 + k
Shapes(groups, n) == SeqsUpTo(0..n, groups)

Segment(t, s, n) == [k \in 1..n |-> GpxPoint(100 * t + 10 * s + k)]

Route(r, n) == [k \in 1..n |-> GpxPoint(1000 + 10 * r + k)]

\* ts[t][s] points in segment s of track t, rs[r] points in route r, w waypoints
Gpx(ts, rs, w) ==
    [tracks |-> [t \in 1..Len(ts) |->
                   [s \in 1..Len(ts[t]) |-> Segment(t, s, ts[t][s])]],
     routes |-> [r \in 1..Len(rs) |-> Route(r, rs[r])],
     waypoints |-> [k \in 1..w |-> GpxPoint(2000 + k)]]

----------------------------------------------------------------------------
(* State *)

Event(offset, street) ==
    [offset |-> offset, street |-> street, text |-> format_time_delta(offset)]

Init ==
    /\ gpx = EmptyGpx
    /\ points \in PointSeqs
    /\ downsample \in 1..MaxStride
    /\ threshold \in 1..MaxThreshold
    /\ final_threshold \in 1..MaxThreshold
    /\ pc = "process"
    /\ start_time = NoTime
    /\ confirmed_street = None
    /\ candidate_street = None
    /\ candidate_times = <<>>
    /\ i = 0
    /\ out = <<>>
    /\ notice = <<>>
    /\ sleeps = <<>>
    /\ calls = <<>>
    /\ last = "none"
    /\ hist = <<>>
    /\ candidate_hits = <<>>
    /\ log = <<>>

InitCollect ==
    /\ \E ts \in SeqsUpTo(Shapes(MaxSegs, MaxPts), MaxTracks),
          rs \in Shapes(MaxTracks, MaxPts),
          w \in 0..MaxWpts : gpx = Gpx(ts, rs, w)
    /\ points = <<>>
    /\ downsample = 1
    /\ threshold = 1
    /\ final_threshold = 1
    /\ pc = "main"
    /\ start_time = NoTime
    /\ confirmed_street = None
    /\ candidate_street = None
    /\ candidate_times = <<>>
    /\ i = 0
    /\ out = <<>>
    /\ notice = <<>>
    /\ sleeps = <<>>
    /\ calls = <<>>
    /\ last = "none"
    /\ hist = <<>>
    /\ candidate_hits = <<>>
    /\ log = <<>>

\* a GPX file holding the samples ps as track points, route points or waypoints;
\* without samples it still holds the empty track, route or waypoint list
GpxFrom(src, ps) ==
    LET pts == [k \in 1..Len(ps) |->
                  [latitude |-> ps[k][1], longitude |-> ps[k][2], time |-> ps[k][3]]]
    IN  [tracks |-> IF src = "trk" THEN <<<<pts>>>> ELSE <<>>,
         routes |-> IF src = "rte" THEN <<pts>> ELSE <<>>,
         waypoints |-> IF src = "wpt" THEN pts ELSE <<>>]

\* a whole run of main on a short recording
InitMain ==
    /\ \E ps \in PointSeqs, src \in {"trk", "wpt"} :
          /\ Len(ps) <= MaxGappy
          /\ gpx = GpxFrom(src, ps)
    /\ points = <<>>
    /\ downsample \in 1..MaxStride
    /\ threshold \in 1..MaxThreshold
    /\ final_threshold \in 1..MaxThreshold
    /\ pc = "main"
    /\ start_time = NoTime
    /\ confirmed_street = None
    /\ candidate_street = None
    /\ candidate_times = <<>>
    /\ i = 0
    /\ out = <<>>
    /\ notice = <<>>
    /\ sleeps = <<>>
    /\ calls = <<>>
    /\ last = "none"
    /\ hist = <<>>
    /\ candidate_hits = <<>>
    /\ log = <<>>

\* process_points with stride 2 on three samples, the third one s seconds
\* after the first
InitFormat ==
    /\ gpx = EmptyGpx
    /\ \E s \in 0..MaxSeconds :
          points = <<<<1, 0, 0>>, <<2, 0, NoTime>>, <<3, 0, s>>>>
    /\ downsample = 2
    /\ threshold = 1
    /\ final_threshold = 1
    /\ pc = "process"
    /\ start_time = NoTime
    /\ confirmed_street = None
    /\ candidate_street = None
    /\ candidate_times = <<>>
    /\ i = 0
    /\ out = <<>>
    /\ notice = <<>>
    /\ sleeps = <<>>
    /\ calls = <<>>
    /\ last = "none"
    /\ hist = <<>>
    /\ candidate_hits = <<>>
    /\ log = <<>>

----------------------------------------------------------------------------
(* main: collect the points; an empty result is reported and ends the run *)

NoDataNever(pts) == FALSE

\* `if not points`, in main and in process_points
NoData(pts) == pts = <<>>

MainCollect ==
    /\ pc = "main"
    /\ points' = collect_points(gpx)
    /\ IF NoData(points')
       THEN /\ notice' = Append(notice, "No track/route/waypoint data found in this GPX.")
            /\ pc' = "done"
       ELSE /\ notice' = notice
            /\ pc' = "process"
    /\ UNCHANGED <<gpx, downsample, threshold, final_threshold, start_time,
                   confirmed_street, candidate_street, candidate_times, i, out,
                   sleeps, calls, last, hist, candidate_hits, log>>

----------------------------------------------------------------------------
(* process_points *)

FirstTimeOfFirstPoint(pts) == pts[1][3]

\* the first non-None time of the full sequence, or None
FirstTime(pts) ==
    IF \E k \in 1..Len(pts) : pts[k][3] # NoTime
    THEN LET k == CHOOSE k \in 1..Len(pts) :
                    /\ pts[k][3] # NoTime
                    /\ \A j \in 1..(k - 1) : pts[j][3] = NoTime
         IN  pts[k][3]
    ELSE NoTime

TimeDiffReversed(start, point_time) ==
    IF start # NoTime /\ point_time # NoTime THEN start - point_time ELSE 0

\* time offset of a point
TimeDiff(start, point_time) ==
    IF start # NoTime /\ point_time # NoTime THEN point_time - start ELSE 0

RetainedAll(idx, stride) == TRUE

RetainedAfterFirst(idx, stride) == (idx + 1) % stride = 0

\* `if i % downsample != 0: continue`
Retained(idx, stride) == idx % stride = 0

ReachedEarly(times, thr) == Len(times) + 1 >= thr

\* `if len(candidate_times) >= threshold`
Reached(times, thr) == Len(times) >= thr

ConfirmOffsetLatest(times) == times[Len(times)]

\* `confirm_offset = candidate_times[0]`
ConfirmOffset(times) == times[1]

NewCandidateTimesMerged(times, time_diff) == Append(times, time_diff)

\* `candidate_times = [time_diff]`: a new candidate starts from this hit alone
NewCandidateTimes(times, time_diff) == <<time_diff>>

FinalConfirmStrict(candidate, confirmed, times, final) ==
    /\ candidate # None /\ candidate # ""
    /\ candidate # confirmed
    /\ Len(times) > final

FinalConfirmAnyHit(candidate, confirmed, times, final) ==
    /\ candidate # None /\ candidate # ""
    /\ candidate # confirmed
    /\ Len(times) >= 1

FinalConfirmNoCompare(candidate, confirmed, times, final) ==
    /\ candidate # None /\ candidate # ""
    /\ Len(times) >= final

\* the conditions of the end-of-sequence confirmation
FinalConfirm(candidate, confirmed, times, final) ==
    /\ Truthy(candidate)
    /\ candidate # confirmed
    /\ Len(times) >= final

SameStreetNever(street, confirmed) == FALSE

\* `if street == confirmed_street`
SameStreet(street, confirmed) == street = confirmed

\* entry of process_points up to the loop
Begin ==
    /\ pc = "process"
    /\ IF NoData(points)
       THEN /\ notice' = Append(notice, "No track, route, or waypoint data found in this GPX.")
            /\ pc' = "done"
            /\ UNCHANGED <<start_time, confirmed_street, candidate_street,
                           candidate_times, i>>
       ELSE /\ start_time' = FirstTime(points)
            /\ confirmed_street' = None
            /\ candidate_street' = None
            /\ candidate_times' = <<>>
            /\ i' = 0
            /\ pc' = "loop"
            /\ notice' = notice
    /\ UNCHANGED <<gpx, points, downsample, threshold, final_threshold, out,
                   sleeps, calls, last, hist, candidate_hits, log>>

HistEntry(street, conf, n) ==
    [street |-> street, pre |-> confirmed_street, cand |-> candidate_street,
     conf |-> conf, n |-> n]

\* one loop iteration for a sample the stride skips
SkipPoint ==
    /\ pc = "loop"
    /\ i < Len(points)
    /\ ~Retained(i, downsample)
    /\ i' = i + 1
    /\ hist' = Append(hist, HistEntry(Skipped, confirmed_street, Len(out)))
    /\ UNCHANGED <<gpx, points, downsample, threshold, final_threshold, pc,
                   start_time, confirmed_street, candidate_street,
                   candidate_times, out, notice, sleeps, calls, last,
                   candidate_hits, log>>

\* one loop iteration for a retained sample; resp is what the request yields
ProcessPoint(resp) ==
    /\ pc = "loop"
    /\ i < Len(points)
    /\ Retained(i, downsample)
    /\ sleeps' = Append(sleeps, i)
    /\ calls' = Append(calls, i)
    /\ log' = log \o <<<<"sleep", i>>, <<"request", i>>, <<"debounce", i>>>>
    /\ last' = resp.kind
    /\ i' = i + 1
    /\ LET time_diff == TimeDiff(start_time, points[i + 1][3])
           street == get_street_name(resp)
       IN  IF ~Truthy(street)
           THEN /\ UNCHANGED <<confirmed_street, candidate_street,
                               candidate_times, candidate_hits, out>>
                /\ hist' = Append(hist, HistEntry(None, confirmed_street, Len(out)))
           ELSE IF SameStreet(street, confirmed_street)
           THEN /\ candidate_street' = None
                /\ candidate_times' = <<>>
                /\ candidate_hits' = <<>>
                /\ UNCHANGED <<confirmed_street, out>>
                /\ hist' = Append(hist, HistEntry(street, confirmed_street, Len(out)))
           ELSE IF street = candidate_street
           THEN /\ candidate_times' = Append(candidate_times, time_diff)
                /\ candidate_hits' = Append(candidate_hits, i)
                /\ candidate_street' = candidate_street
                /\ IF Reached(candidate_times', threshold)
                   THEN /\ confirmed_street' = candidate_street
                        /\ out' = Append(out, Event(ConfirmOffset(candidate_times'),
                                                    candidate_street))
                   ELSE UNCHANGED <<confirmed_street, out>>
                /\ hist' = Append(hist, HistEntry(street, confirmed_street', Len(out')))
           ELSE /\ candidate_street' = street
                /\ candidate_times' = NewCandidateTimes(candidate_times, time_diff)
                /\ candidate_hits' = <<i>>
                /\ UNCHANGED <<confirmed_street, out>>
                /\ hist' = Append(hist, HistEntry(street, confirmed_street, Len(out)))
    /\ UNCHANGED <<gpx, points, downsample, threshold, final_threshold, pc,
                   start_time, notice>>

\* after the loop: the trailing candidate
Finalize ==
    /\ pc = "loop"
    /\ i = Len(points)
    /\ pc' = "done"
    /\ IF FinalConfirm(candidate_street, confirmed_street, candidate_times,
                       final_threshold)
       THEN out' = Append(out, Event(ConfirmOffset(candidate_times), candidate_street))
       ELSE out' = out
    /\ UNCHANGED <<gpx, points, downsample, threshold, final_threshold,
                   start_time, confirmed_street, candidate_street,
                   candidate_times, i, notice, sleeps, calls, last, hist,
                   candidate_hits, log>>

Next ==
    \/ Begin
    \/ SkipPoint
    \/ \E resp \in Responses : ProcessPoint(resp)
    \/ Finalize

NextCollect == MainCollect

Spec == Init /\ [][Next]_vars

SpecCollect == InitCollect /\ [][NextCollect]_vars

NextMain ==
    \/ MainCollect
    \/ Begin
    \/ SkipPoint
    \/ \E resp \in Responses : ProcessPoint(resp)
    \/ Finalize

SpecMain == InitMain /\ [][NextMain]_vars

SpecFormat == InitFormat /\ [][Next]_vars

----------------------------------------------------------------------------
(* Vocabulary of the properties *)

\* the labels of the loop iterations so far, Skipped for a skipped sample
Labels == [k \in 1..Len(hist) |-> hist[k].street]

\* the emitted events as (offset, street)
Events == [k \in 1..Len(out) |-> <<out[k].offset, out[k].street>>]

\* iteration k classified its sample and got a street name
Hit(k) == hist[k].street \notin {None, Skipped}

\* number of events emitted before iteration k
EmittedBefore(k) == IF k = 1 THEN 0 ELSE hist[k - 1].n

\* the time offset of sample idx (0-based)
OffsetOf(idx) ==
    LET t == points[idx + 1][3]
        t0 == FirstTime(points)
    IN  IF t0 = NoTime \/ t = NoTime THEN 0 ELSE t - t0

\* iterations a..b: the hits among them all carry the label of a, and a, b are hits
SameLabelRun(a, b) ==
    /\ a <= b /\ Hit(a) /\ Hit(b)
    /\ \A k \in a..b : Hit(k) => hist[k].street = hist[a].street

HitsIn(a, b) == Cardinality({k \in a..b : Hit(k)})

----------------------------------------------------------------------------
(* C1: every event carries the offset of the first hit of the candidate    *)
(* that won, the sample that created it, whether it is emitted inside the  *)
(* loop or after it; further hits on a candidate leave its first offset    *)
(* unchanged.                                                              *)

C1_FirstHitOffset ==
    [][/\ Len(out') > Len(out) =>
            /\ candidate_hits' # <<>>
            /\ out'[Len(out')].street = candidate_street'
            /\ out'[Len(out')].street = hist'[candidate_hits'[1] + 1].street
            /\ out'[Len(out')].offset = OffsetOf(candidate_hits'[1])
       /\ (candidate_times # <<>> /\ Len(candidate_times') > Len(candidate_times)) =>
            /\ candidate_times'[1] = candidate_times[1]
            /\ candidate_hits'[1] = candidate_hits[1]]_vars

\* a run with threshold 3 confirmed a street at the offset of its first hit,
\* two samples before the confirming one, and a second street after the loop
C1_Witness ==
    /\ pc = "done" /\ threshold = 3
    /\ Len(out) = 2 /\ hist[Len(hist)].n = 1
    /\ out[1].offset = 10 /\ out[2].offset > out[1].offset
    /\ Labels[2] = out[1].street /\ Labels[1] # out[1].street

----------------------------------------------------------------------------
(* C2: a run of `threshold` consecutive non-null labels L, L not the       *)
(* confirmed street when the run begins, confirms L by the last sample of  *)
(* the run: confirmed_street is L and exactly one event, for L, was        *)
(* emitted during the run.                                                 *)

C2_RunConfirms ==
    \A a, b \in 1..Len(hist) :
        (/\ SameLabelRun(a, b)
         /\ HitsIn(a, b) = threshold
         /\ hist[a].pre # hist[a].street)
        => /\ hist[b].conf = hist[a].street
           /\ hist[b].n = EmittedBefore(a) + 1
           /\ out[hist[b].n].street = hist[a].street

\* C2 restricted to thresholds of 2 and more, where the code agrees with it
C2_RunConfirmsFromTwo == threshold >= 2 => C2_RunConfirms

----------------------------------------------------------------------------
(* C3: with A confirmed and threshold 2, the labels B, B, A emit no event  *)
(* for B and leave A confirmed (C3_ReturnAtThresholdTwo).                  *)

\* iterations k, k+1, k+2 classified B, B, A with A confirmed before them
\* and B not already the candidate
ReturnPattern(k) ==
    /\ k + 2 <= Len(hist)
    /\ hist[k].pre = "A" /\ hist[k].cand # "B"
    /\ hist[k].street = "B" /\ hist[k + 1].street = "B" /\ hist[k + 2].street = "A"

NoConfirmationIn(k) ==
    /\ hist[k + 2].conf = "A"
    /\ hist[k + 2].n = EmittedBefore(k)
    /\ Len(hist) = k + 2 => candidate_street = None /\ candidate_times = <<>>

C3_ReturnAtThresholdTwo ==
    \A k \in 1..Len(hist) : (threshold = 2 /\ ReturnPattern(k)) => NoConfirmationIn(k)

\* C3 as amended: with A confirmed, no candidate B and a threshold of 3 or
\* more, the labels B, B, A emit nothing, leave A confirmed and end with no
\* candidate
C3_ReturnBelowThreshold ==
    \A k \in 1..Len(hist) : (threshold >= 3 /\ ReturnPattern(k)) => NoConfirmationIn(k)

C3_Witness ==
    /\ threshold = 3 /\ downsample = 1 /\ pc = "done"
    /\ Labels = <<"A", "A", "A", "B", "B", "A">>
    /\ Events = <<<<0, "A">>>>

----------------------------------------------------------------------------
(* C4: hits are never merged across an interruption: the hits of the       *)
(* candidate are exactly the samples labelled with its name since the      *)
(* sample that created it, no other street name occurs among them, and     *)
(* each hit time is the offset of its sample.  With threshold 3 the labels *)
(* A, A, B, A, A, A, A emit one event, for A, at the offset of sample 3.   *)

C4_NoMergedHits ==
    /\ (pc = "loop" /\ candidate_street # None) =>
          LET first == candidate_hits[1] + 1
          IN  /\ Len(candidate_hits) = Len(candidate_times)
              /\ \A k \in first..Len(hist) :
                     Hit(k) => hist[k].street = candidate_street
              /\ {h + 1 : h \in {candidate_hits[k] : k \in 1..Len(candidate_hits)}}
                     = {k \in first..Len(hist) : Hit(k)}
              /\ \A k \in 1..Len(candidate_times) :
                     candidate_times[k] = OffsetOf(candidate_hits[k])
    /\ (/\ pc = "done" /\ threshold = 3 /\ downsample = 1
        /\ Labels = <<"A", "A", "B", "A", "A", "A", "A">>
        /\ \A k \in 1..Len(points) : points[k][3] # NoTime)
          => Events = <<<<OffsetOf(3), "A">>>>

C4_Witness ==
    /\ pc = "done" /\ threshold = 3 /\ downsample = 1
    /\ Labels = <<"A", "A", "B", "A", "A", "A", "A">>
    /\ Events = <<<<30, "A">>>>

----------------------------------------------------------------------------
(* C5: after the last sample exactly one more event, (first hit time of    *)
(* the candidate, its name), is emitted if and only if a candidate is      *)
(* live, differs from the confirmed street and has at least                *)
(* final_threshold hits; otherwise nothing more is emitted.  With          *)
(* threshold 3 and final_threshold 2, A, A, A, B, B emits A and then B at  *)
(* B's first hit, and A, A, A, B emits only A.                             *)

\* number of events the loop emitted
EmittedInLoop == IF hist = <<>> THEN 0 ELSE hist[Len(hist)].n

HitSet == {k \in 1..Len(hist) : Hit(k)}

LastHit == CHOOSE k \in HitSet : \A j \in HitSet : j <= k

\* the hits of the trailing candidate: the hits labelled like the last hit
\* that follow the last hit labelled otherwise
TrailingHits ==
    {k \in HitSet : \A j \in HitSet : j >= k => hist[j].street = hist[LastHit].street}

FirstTrailingHit == CHOOSE k \in TrailingHits : \A j \in TrailingHits : k <= j

C5_Finalization ==
    (pc = "done" /\ points # <<>>) =>
       /\ LET live == /\ HitSet # {}
                      /\ hist[LastHit].street # confirmed_street
                      /\ Cardinality(TrailingHits) >= final_threshold
          IN  IF live
              THEN /\ Len(out) = EmittedInLoop + 1
                   /\ candidate_street = hist[LastHit].street
                   /\ Len(candidate_times) = Cardinality(TrailingHits)
                   /\ Events[Len(out)] = <<candidate_times[1], candidate_street>>
                   /\ Events[Len(out)] = <<OffsetOf(FirstTrailingHit - 1),
                                           hist[LastHit].street>>
              ELSE /\ Len(out) = EmittedInLoop
                   /\ \/ candidate_street = None
                      \/ candidate_street = confirmed_street
                      \/ Len(candidate_times) < final_threshold
       /\ (/\ threshold = 3 /\ final_threshold = 2 /\ downsample = 1
           /\ \A k \in 1..Len(points) : points[k][3] # NoTime)
          => /\ Labels = <<"A", "A", "A", "B", "B">>
                  => Events = <<<<0, "A">>, <<30, "B">>>>
             /\ Labels = <<"A", "A", "A", "B">> => Events = <<<<0, "A">>>>

C5_Witness ==
    /\ pc = "done" /\ threshold = 3 /\ final_threshold = 2 /\ downsample = 1
    /\ Labels = <<"A", "A", "A", "B", "B">>
    /\ Events = <<<<0, "A">>, <<30, "B">>>>

----------------------------------------------------------------------------
(* C6: a street name the classifier returned for exactly one retained      *)
(* sample of the run appears in no emitted event.                          *)

TimesReturned(name) == Cardinality({k \in 1..Len(hist) : hist[k].street = name})

NoSingleHitEvent ==
    \A name \in Streets :
        TimesReturned(name) = 1 => \A k \in 1..Len(out) : out[k].street # name

C6_SingleHitNeverEmitted == pc = "done" => NoSingleHitEvent

\* C6 as amended: the same for every threshold and every final_threshold of
\* at least 2
C6_SingleHitNeverEmittedFromTwo ==
    (pc = "done" /\ final_threshold >= 2) => NoSingleHitEvent

\* a run ended on a single hit of a street while another street was emitted
C6_Witness ==
    /\ pc = "done" /\ final_threshold >= 2 /\ out # <<>>
    /\ candidate_street \in Streets
    /\ candidate_street # confirmed_street
    /\ TimesReturned(candidate_street) = 1

----------------------------------------------------------------------------
(* C7: a retained sample whose label is null, the classifier having found  *)
(* nothing or failed, changes neither the confirmed street nor the         *)
(* candidate nor its hit times, emits nothing, and the loop goes on with   *)
(* the next sample; hits separated only by null labels count as            *)
(* consecutive.                                                            *)

\* this step classified a sample and got no street name
NullStep ==
    /\ Len(calls') = Len(calls) + 1
    /\ \/ last' \in {"exception", "status"}
       \/ hist'[Len(hist')].street = None

C7_NullLabelSkipped ==
    /\ [][NullStep =>
            /\ UNCHANGED <<confirmed_street, candidate_street, candidate_times, out>>
            /\ hist'[Len(hist')].street = None
            /\ pc' = "loop" /\ i' = i + 1]_vars
    /\ [](\A a, b \in 1..Len(hist) :
            (/\ threshold >= 2
             /\ SameLabelRun(a, b)
             /\ HitsIn(a, b) = threshold
             /\ hist[a].pre # hist[a].street)
            => /\ hist[b].conf = hist[a].street
               /\ hist[b].n = EmittedBefore(a) + 1)

\* A, null (a failed request), A confirmed A at threshold 2
C7_Witness ==
    /\ threshold = 2 /\ downsample = 1 /\ last = "exception"
    /\ Len(hist) = 4
    /\ Labels = <<"A", None, "A", None>>
    /\ Events = <<<<0, "A">>>>
    /\ confirmed_street = "A"

----------------------------------------------------------------------------
(* C8: a sample whose index is not a multiple of the stride is never       *)
(* passed to the classifier, and its step changes neither the confirmed    *)
(* street nor the candidate nor its hit times nor the output.              *)

SeqRange(q) == {q[k] : k \in 1..Len(q)}

C8_SkippedSampleInert ==
    /\ [][(pc = "loop" /\ i < Len(points) /\ i % downsample # 0) =>
            /\ UNCHANGED <<confirmed_street, candidate_street, candidate_times,
                           out, calls, sleeps, last>>
            /\ i' = i + 1]_vars
    /\ [](\A idx \in SeqRange(calls) : idx % downsample = 0)

\* a skipped sample went by while a candidate was live and an event was out
C8_Witness ==
    /\ downsample = 2 /\ out # <<>>
    /\ Len(hist) >= 2 /\ hist[Len(hist)].street = Skipped
    /\ candidate_street \in Streets /\ candidate_street # confirmed_street

----------------------------------------------------------------------------
(* C9: collect_points returns one source by strict priority: all track     *)
(* points in document order if there is any, else all route points in      *)
(* document order if there is any, else the waypoints in document order,   *)
(* else nothing; tracks or routes without points do not block the next     *)
(* source.                                                                 *)

\* the latitudes, which name the points, of each source
TrackIdsOf(g) ==
    UNION {UNION {{g.tracks[t][s][k].latitude : k \in 1..Len(g.tracks[t][s])} :
                     s \in 1..Len(g.tracks[t])} :
              t \in 1..Len(g.tracks)}

RouteIds == UNION {{gpx.routes[r][k].latitude : k \in 1..Len(gpx.routes[r])} :
                      r \in 1..Len(gpx.routes)}

WaypointIds == {gpx.waypoints[k].latitude : k \in 1..Len(gpx.waypoints)}

CollectedIds == {points[k][1] : k \in 1..Len(points)}

\* the collected tuples are the points of the source, each once, in document
\* order (latitudes grow in document order within a source)
ExactlyInOrder(ids) ==
    /\ CollectedIds = ids
    /\ Len(points) = Cardinality(ids)
    /\ \A j, k \in 1..Len(points) : j < k => points[j][1] < points[k][1]
    /\ \A k \in 1..Len(points) : points[k] = <<points[k][1], 0, NoTime>>

C9_CollectorPriority ==
    pc # "main" =>
        IF TrackIdsOf(gpx) # {} THEN ExactlyInOrder(TrackIdsOf(gpx))
        ELSE IF RouteIds # {} THEN ExactlyInOrder(RouteIds)
        ELSE ExactlyInOrder(WaypointIds)

\* two tracks with points beside routes with points and waypoints
C9_Witness ==
    /\ pc = "process"
    /\ Len(points) = 2 /\ points[1][1] < 200 /\ points[2][1] > 200
    /\ RouteIds # {} /\ WaypointIds # {}

----------------------------------------------------------------------------
(* C10: the offsets of the emitted events are non-decreasing in emission   *)
(* order, for every sample sequence, samples without timestamp included.   *)

EventOffsetsNonDecreasing ==
    \A j, k \in 1..Len(out) : j < k => out[j].offset <= out[k].offset

C10_EventOffsetsNonDecreasing == EventOffsetsNonDecreasing

RetainedSamples == {k \in 1..Len(points) : (k - 1) % downsample = 0}

\* the retained samples all carry a timestamp, non-decreasing in index
\* order, or none of them carries one
RetainedTimestampsUniform ==
    \/ /\ \A k \in RetainedSamples : points[k][3] # NoTime
       /\ \A j, k \in RetainedSamples : j < k => points[j][3] <= points[k][3]
    \/ \A k \in RetainedSamples : points[k][3] = NoTime

\* C10 as amended: the event offsets are non-decreasing in emission order
\* in every run whose retained samples all carry chronological timestamps or
\* all carry none
C10_EventOffsetsNonDecreasingWhenTimed ==
    RetainedTimestampsUniform => EventOffsetsNonDecreasing

C10_Witness ==
    /\ pc = "done" /\ RetainedTimestampsUniform
    /\ Len(out) = 2 /\ out[1].offset > 0 /\ out[1].offset < out[2].offset

----------------------------------------------------------------------------
(* C11: when the collected sample sequence is empty the run ends normally  *)
(* after one "no data" message: no event is emitted, the classifier is     *)
(* never called and no pacing pause is taken.  (Holds of main, which       *)
(* reports and returns before process_points, and of process_points called *)
(* with an empty list.)                                                    *)

NoDataMessages ==
    {"No track/route/waypoint data found in this GPX.",
     "No track, route, or waypoint data found in this GPX."}

C11_EmptyRun ==
    /\ pc \in {"main", "process", "loop", "done"}
    /\ (points = <<>> /\ pc \notin {"main", "process"}) =>
          /\ pc = "done"
          /\ Len(notice) = 1 /\ notice[1] \in NoDataMessages
          /\ out = <<>>
          /\ calls = <<>> /\ sleeps = <<>> /\ log = <<>> /\ hist = <<>>
    /\ points # <<>> => notice = <<>>

\* main ended on a GPX whose only track has an empty segment
C11_Witness ==
    /\ pc = "done" /\ points = <<>>
    /\ Len(gpx.tracks) = 1 /\ gpx.tracks[1] = <<<<>>>>
    /\ notice = <<"No track/route/waypoint data found in this GPX.">>

----------------------------------------------------------------------------
(* C12: in a run over n samples with stride N the classifier is called     *)
(* exactly once for each index 0, N, 2N, ... below n and for no other, in  *)
(* strictly increasing index order; each call directly follows the one     *)
(* pause taken for its sample, and the debounce step of a sample is over   *)
(* before the pause of the next retained sample.                           *)

\* the j-th retained index
RetainedIndex(j) == (j - 1) * downsample

\* number of retained indices below n
RetainedBelow(n) == Cardinality({k \in 0..(n - 1) : k % downsample = 0})

C12_OneCallPerRetainedSample ==
    LET m == RetainedBelow(i)
    IN  /\ Len(calls) = m /\ Len(sleeps) = m /\ Len(log) = 3 * m
        /\ \A j \in 1..m :
              /\ RetainedIndex(j) < Len(points)
              /\ calls[j] = RetainedIndex(j)
              /\ sleeps[j] = RetainedIndex(j)
              /\ log[3 * j - 2] = <<"sleep", RetainedIndex(j)>>
              /\ log[3 * j - 1] = <<"request", RetainedIndex(j)>>
              /\ log[3 * j] = <<"debounce", RetainedIndex(j)>>
        /\ \A j, k \in 1..m : j < k => calls[j] < calls[k]
        /\ (pc = "done" /\ points # <<>>) => i = Len(points)

C12_Witness ==
    /\ pc = "done" /\ downsample = 2 /\ Len(points) = 5
    /\ calls = <<0, 2, 4>> /\ sleeps = <<0, 2, 4>>
    /\ out # <<>>

----------------------------------------------------------------------------
(* C13: the line of an event with offset s >= 0 seconds shows MM = s div   *)
(* 60 and SS = s mod 60: 60 * MM + SS = s and 0 <= SS <= 59; there is no   *)
(* hour field, so from 3600 seconds on MM is 60 or more (3661 prints       *)
(* minutes 61, seconds 01).                                                *)

C13_MinutesSeconds ==
    \A k \in 1..Len(out) :
        LET s == out[k].offset
            mm == out[k].text[1]
            ss == out[k].text[2]
        IN  s >= 0 =>
              /\ 60 * mm + ss = s
              /\ 0 <= ss /\ ss <= 59
              /\ s >= 3600 => mm >= 60
              /\ s = 3661 => (mm = 61 /\ ss = 1)

C13_Witness ==
    /\ pc = "done" /\ Len(out) = 1
    /\ out[1].offset = 3661 /\ out[1].text = <<61, 1>>

----------------------------------------------------------------------------
(* C14: immediately after a step that confirms a street L the candidate is *)
(* cleared, the state being confirmed street L, no candidate, no hit       *)
(* times; and in every reachable state a live candidate's name differs     *)
(* from the confirmed street (C14_CandidateClearedOnConfirm).              *)

\* the latest loop iteration emitted an event
JustConfirmed ==
    /\ hist # <<>>
    /\ hist[Len(hist)].n = EmittedBefore(Len(hist)) + 1

C14_CandidateClearedOnConfirm ==
    /\ JustConfirmed =>
          /\ confirmed_street = hist[Len(hist)].street
          /\ candidate_street = None
          /\ candidate_times = <<>>
    /\ candidate_street # None => candidate_street # confirmed_street

\* C14 as amended: after a confirming step the confirmed street is L and the
\* candidate is left in place, still L with its threshold or more hit times;
\* a candidate named like the confirmed street is always this leftover of the
\* latest confirmation, which no sample has hit since and which the end of
\* the run does not emit
C14_CandidateLeftOnConfirm ==
    /\ JustConfirmed =>
          /\ confirmed_street = hist[Len(hist)].street
          /\ candidate_street = confirmed_street
          /\ Len(candidate_times) >= threshold
          /\ Events[hist[Len(hist)].n] = <<candidate_times[1], confirmed_street>>
    /\ (candidate_street # None /\ candidate_street = confirmed_street) =>
          /\ HitSet # {}
          /\ hist[LastHit].street = candidate_street
          /\ hist[LastHit].n = EmittedBefore(LastHit) + 1
          /\ Len(out) = EmittedInLoop

\* A was confirmed two samples ago and is still the candidate
C14_Witness ==
    /\ pc = "loop" /\ threshold = 2
    /\ Labels = <<"A", "A", None>>
    /\ confirmed_street = "A" /\ candidate_street = "A"
    /\ Len(candidate_times) = 2 /\ Len(out) = 1

----------------------------------------------------------------------------
(* C15: a retained sample labelled with the confirmed street leaves no     *)
(* candidate and no hit times, and changes neither the confirmed street    *)
(* nor the output; so hits on B before and after a return to the confirmed *)
(* street are not added together: with A confirmed and threshold 2, the    *)
(* labels B, A, B do not confirm B inside the loop.                        *)

\* iteration k classified its sample as the street confirmed before it
ReturnStep(k) == Hit(k) /\ hist[k].street = hist[k].pre

C15_ReturnClearsCandidate ==
    /\ \A k \in 1..Len(hist) :
          ReturnStep(k) =>
             /\ hist[k].conf = hist[k].pre
             /\ hist[k].n = EmittedBefore(k)
             /\ k < Len(hist) => hist[k + 1].cand = None
             /\ k = Len(hist) => (candidate_street = None /\ candidate_times = <<>>)
    /\ \A k \in 1..Len(hist) :
          (/\ threshold = 2 /\ k + 2 <= Len(hist)
           /\ hist[k].pre = "A" /\ hist[k].cand # "B"
           /\ hist[k].street = "B" /\ hist[k + 1].street = "A"
           /\ hist[k + 2].street = "B")
          => /\ hist[k + 2].conf = "A"
             /\ hist[k + 2].n = EmittedBefore(k)
             /\ Len(hist) = k + 2 =>
                   (candidate_street = "B" /\ Len(candidate_times) = 1)

C15_Witness ==
    /\ pc = "loop" /\ threshold = 2 /\ downsample = 1
    /\ Labels = <<"A", "A", "B", "A", "B">>
    /\ Events = <<<<0, "A">>>>
    /\ confirmed_street = "A" /\ candidate_times = <<40>>

----------------------------------------------------------------------------
(* C16: in every reachable state the hit times of the candidate are        *)
(* non-decreasing, for every sample sequence, samples without timestamp    *)
(* (offset 0) included.                                                    *)

HitTimesNonDecreasing ==
    \A j, k \in 1..Len(candidate_times) :
        j < k => candidate_times[j] <= candidate_times[k]

\* (a candidate named like the confirmed street is the leftover of a
\* confirmation, not a live candidate)
C16_HitTimesNonDecreasing ==
    candidate_street # confirmed_street => HitTimesNonDecreasing

\* C16 as amended: the hit times are non-decreasing in every state of a run
\* whose retained samples all carry chronological timestamps or all carry
\* none
C16_HitTimesNonDecreasingWhenTimed ==
    RetainedTimestampsUniform => HitTimesNonDecreasing

C16_Witness ==
    /\ pc = "loop" /\ RetainedTimestampsUniform
    /\ threshold = 3 /\ candidate_times = <<10, 20>>
    /\ candidate_street # confirmed_street

----------------------------------------------------------------------------
(* C17: the start time is fixed before the first sample is stepped, as the *)
(* timestamp of the lowest-index sample of the full sequence, retained or  *)
(* skipped, that has one, and never changes; the offset of a retained      *)
(* sample is its timestamp minus the start time, and 0 when the sample or  *)
(* the whole sequence has no timestamp, whatever the candidate and the     *)
(* confirmed street are.                                                   *)

Stamped == {k \in 1..Len(points) : points[k][3] # NoTime}

ExpectedStart ==
    IF Stamped = {} THEN NoTime
    ELSE points[CHOOSE k \in Stamped : \A j \in Stamped : k <= j][3]

ExpectedOffset(idx) ==
    IF Stamped = {} \/ points[idx + 1][3] = NoTime THEN 0
    ELSE points[idx + 1][3] - ExpectedStart

C17_StartTimeAndOffsets ==
    (pc \in {"loop", "done"} /\ points # <<>>) =>
       /\ start_time = ExpectedStart
       /\ Len(candidate_hits) = Len(candidate_times)
       /\ \A k \in 1..Len(candidate_times) :
             candidate_times[k] = ExpectedOffset(candidate_hits[k])

\* stride 2: sample 0 has no timestamp, the skipped sample 1 gives the start
\* time, sample 2 is 10 seconds after it
C17_Witness ==
    /\ pc = "loop" /\ downsample = 2 /\ Len(points) >= 3
    /\ points[1][3] = NoTime /\ points[2][3] = 10 /\ points[3][3] = 20
    /\ start_time = 10
    /\ candidate_hits = <<0, 2>> /\ candidate_times = <<0, 10>>

----------------------------------------------------------------------------
(* C18: process_points, which leaves the candidate in place when it        *)
(* confirms, emits the same events and has the same confirmed street after *)
(* every step as the state machine of the specification (section 4.2),     *)
(* which clears the candidate when it confirms, for every label and offset *)
(* stream and all thresholds.                                              *)

\* the specification's machine: its initial state, its step for a label L
\* with offset T, and its end-of-sequence rule
SpecMachineInit == [confirmed |-> None, cand |-> None, times |-> <<>>, out |-> <<>>]

SpecMachineStep(st, L, T) ==
    IF L \in {None, Skipped} THEN st
    ELSE IF L = st.confirmed THEN [st EXCEPT !.cand = None, !.times = <<>>]
    ELSE IF st.cand # None /\ L = st.cand
    THEN LET hits == Append(st.times, T)
         IN  IF Len(hits) >= threshold
             THEN [confirmed |-> L, cand |-> None, times |-> <<>>,
                   out |-> Append(st.out, <<hits[1], L>>)]
             ELSE [st EXCEPT !.times = hits]
    ELSE [st EXCEPT !.cand = L, !.times = <<T>>]

SpecMachineFinal(st) ==
    IF st.cand # None /\ st.cand # st.confirmed /\ Len(st.times) >= final_threshold
    THEN Append(st.out, <<st.times[1], st.cand>>)
    ELSE st.out

\* the specification's machine after the first k loop iterations
RECURSIVE SpecMachineAfter(_)
SpecMachineAfter(k) ==
    IF k = 0 THEN SpecMachineInit
    ELSE SpecMachineStep(SpecMachineAfter(k - 1), hist[k].street, ExpectedOffset(k - 1))

C18_SameAsSpecMachine ==
    (pc \in {"loop", "done"} /\ points # <<>>) =>
       LET st == SpecMachineAfter(Len(hist))
       IN  /\ confirmed_street = st.confirmed
           /\ pc = "loop" => Events = st.out
           /\ pc = "done" => Events = SpecMachineFinal(st)
           /\ IF st.cand = None
              THEN candidate_street \in {None, confirmed_street}
              ELSE candidate_street = st.cand /\ candidate_times = st.times

\* a run that confirmed A, then B, and ended with B left as the candidate
\* where the specification's machine has none
C18_Witness ==
    /\ pc = "done" /\ Len(out) = 2
    /\ candidate_street = "B" /\ confirmed_street = "B"
    /\ Len(candidate_times) >= final_threshold
    /\ SpecMachineAfter(Len(hist)).cand = None

----------------------------------------------------------------------------
(* C19: no event carries the street of the event emitted immediately       *)
(* before it, the end-of-sequence event included; and a run whose only     *)
(* street label is A, with at least threshold (>= 2) hits, emits exactly   *)
(* one event, A at the offset of the first A.                              *)

NoRepeatedStreet ==
    \A k \in 1..(Len(out) - 1) : out[k].street # out[k + 1].street

OnlyA == \A k \in HitSet : hist[k].street = "A"

FirstHit == CHOOSE k \in HitSet : \A j \in HitSet : k <= j

C19_NoRepeatedStreet ==
    /\ NoRepeatedStreet
    /\ (/\ pc = "done" /\ threshold >= 2
        /\ OnlyA /\ Cardinality(HitSet) >= threshold)
          => Events = << <<OffsetOf(FirstHit - 1), "A">> >>

\* A was confirmed at its second hit, hit twice more, and the run ended with
\* the one event
C19_Witness ==
    /\ pc = "done" /\ threshold = 2 /\ final_threshold = 1
    /\ OnlyA /\ Cardinality(HitSet) >= 4
    /\ Len(out) = 1 /\ out[1].street = "A"
    /\ candidate_street = None /\ candidate_times = <<>>

====
